---------------------------- MODULE Spec2Model ----------------------------
(***************************************************************************)
(* A model of the DPDK packet reflector (src/src/reflector.rs and its      *)
(* sibling src/src/main.rs): main, port_init and the burst forwarding loop *)
(* wire_ports, together with the device layer the loop talks to (the mbuf  *)
(* pool, the RX ring and the TX ring of the port).                         *)
(*                                                                         *)
(* A buffer handle is a pair <<slot, frame>>: the pool slot the mbuf lives *)
(* in and the sequence number of the frame the device wrote into it (the   *)
(* generation of the slot).  NULL is the null pointer.                     *)
(***************************************************************************)
EXTENDS Integers, Sequences, FiniteSets, TLC

(* ------------------------------ bounds --------------------------------- *)
\* number of pool slots of the model (NUM_MBUFS scaled down)
PoolSlots == 5
\* depth of the RX descriptor ring (nb_rxd, RING_SIZE scaled down)
RxDepth == 4
\* depth of the TX descriptor ring (nb_txd, RING_SIZE scaled down)
TxDepth == 4
\* number of frames that arrive on the wire during a run
MaxFrames == 6

(* ------------------------- program constants --------------------------- *)
MAX_PKT_BURST_REFLECTOR == 4
MAX_PKT_BURST_MAIN == 32
U16_MAX == 65535
\* reflector.rs: pool size, element size and the three uses of the page size
NUM_MBUFS == 8192
ELT_SIZE == 2048
REGION_PAD == 4096
LAYOUT_ALIGN == 4096
POPULATE_PG_SZ == 4096
\* reflector.rs, comment on elt_size: sizeof(struct rte_mbuf), the headroom
\* of a packet mbuf and the standard MTU
MBUF_STRUCT_SIZE == 128
PKTMBUF_HEADROOM == 128
STANDARD_MTU == 1500

Variants == {"reflector", "main"}
Slots == 1..PoolSlots
NULL == <<0, 0>>
\* the ports the device layer has attached
AttachedPorts == {0}

Min(a, b) == IF a < b THEN a ELSE b

Range(s) == {s[k] : k \in 1..Len(s)}

\* the frame numbers of a sequence of handles
Frames(hs) == [k \in 1..Len(hs) |-> hs[k][2]]

(* ----------------------------- CLI input ------------------------------- *)
Digits == {"0", "1", "2", "3", "4", "5", "6", "7", "8", "9"}

DigitVal(c) ==
    CASE c = "0" -> 0 [] c = "1" -> 1 [] c = "2" -> 2 [] c = "3" -> 3
      [] c = "4" -> 4 [] c = "5" -> 5 [] c = "6" -> 6 [] c = "7" -> 7
      [] c = "8" -> 8 [] c = "9" -> 9

RECURSIVE ParseDigits(_, _)
\* accumulate decimal digits with the checked arithmetic of <u16 as FromStr>;
\* -1 is Err (invalid digit or overflow)
ParseDigits(s, acc) ==
    IF s = <<>> THEN acc
    ELSE IF Head(s) \notin Digits THEN -1
    ELSE LET v == acc * 10 + DigitVal(Head(s))
         IN  IF v > U16_MAX THEN -1 ELSE ParseDigits(Tail(s), v)

\* port_str.parse::<u16>(): the empty string, a lone sign, a minus sign, a
\* non-digit and a value above u16::MAX are errors; one leading "+" is accepted
ParseU16(s) ==
    IF s = <<>> THEN -1
    ELSE IF Head(s) = "+" THEN (IF Len(s) = 1 THEN -1 ELSE ParseDigits(Tail(s), 0))
    ELSE ParseDigits(s, 0)

PortStrings ==
    { <<"0">>, <<"1">>, <<"+", "1">>, <<"-", "1">>, <<"x">>, <<>>,
      <<"6", "5", "5", "3", "6">> }

\* the arguments left after rte_eal_init consumed the EAL options: the "--"
\* slot followed by the application's own arguments
DashDash == <<"-", "-">>

ArgLists ==
    { <<DashDash>> } \cup { <<DashDash, p>> : p \in PortStrings }
                     \cup { <<DashDash, p, <<"9">> >> : p \in {<<"0">>, <<"x">>} }

VARIABLES
    variant,          \* which binary runs: reflector.rs or main.rs
    args,             \* the arguments that remain after EAL initialisation
    pc,               \* position of the main thread
    exit_code,        \* 0 while the process runs, else its exit status
    port_id,          \* the parsed port id (-1 before it is parsed)
    calls,            \* the device-layer calls made during setup, in order
    diag,             \* the diagnostics printed during setup, in order
    raw_mem,          \* "none", "null" or "ok": the region alloc returned
    mem,              \* reflector.rs: the sizes port_init computed and passed
    pool_state,       \* "none", "empty", "populated", "ready"
    started,          \* the port has been started
    failed,           \* the setup calls that reported failure
    pool,             \* the pool's free ring: a FIFO of free slots
    rxRing,           \* handles of received frames waiting for rx_burst
    txRing,           \* handles accepted by tx_burst, waiting for completion
    arrivals,         \* number of frames that have arrived so far
    bufs,             \* wire_ports: the burst array
    nb_rx,            \* wire_ports: result of the last rx_burst
    nb_tx,            \* wire_ports: result of the last tx_burst
    i,                \* wire_ports: index of the reclaim loop
    total_forwarded,  \* wire_ports: counter
    total_dropped,    \* wire_ports: counter
    report,           \* what this iteration printed: <<>> or one record
    start_fwd,        \* history: total_forwarded when this iteration began
    start_drop,       \* history: total_dropped when this iteration began
    tx_calls,         \* history: tx_burst calls of this iteration
    submitted,        \* history: the handles this iteration passed to tx_burst
    freed,            \* history: the array positions this iteration freed
    rxLog,            \* history: frames dequeued by rx_burst, in order
    submitLog,        \* history: frames passed to tx_burst, in order
    txLog,            \* history: frames accepted by tx_burst, in order
    freeLog           \* history: frames passed to rte_pktmbuf_free, in order

cliVars   == <<variant, args>>
setupVars == <<port_id, calls, diag, raw_mem, mem, pool_state, started, failed>>
devVars   == <<pool, rxRing, txRing, arrivals>>
loopVars  == <<bufs, nb_rx, nb_tx, i, total_forwarded, total_dropped, report>>
histVars  == <<start_fwd, start_drop, tx_calls, submitted, freed,
               rxLog, submitLog, txLog, freeLog>>
vars == <<cliVars, pc, exit_code, setupVars, devVars, loopVars, histVars>>

\* MAX_PKT_BURST of the binary that runs
MAX_PKT_BURST ==
    IF variant = "reflector" THEN MAX_PKT_BURST_REFLECTOR ELSE MAX_PKT_BURST_MAIN

\* nothing computed or passed yet
NoMem ==
    [elt_size |-> 0, total_mem_size |-> 0, layout_size |-> 0, layout_align |-> 0,
     pool_n |-> 0, pool_elt_size |-> 0, populate_len |-> 0, populate_pg_sz |-> 0,
     objs_per_page |-> 0, page_rest |-> 0, data_room |-> 0]

Init ==
    /\ variant \in Variants
    /\ args \in ArgLists
    /\ pc = "eal_init"
    /\ exit_code = 0
    /\ port_id = -1
    /\ calls = <<>>
    /\ diag = <<>>
    /\ raw_mem = "none"
    /\ mem = NoMem
    /\ pool_state = "none"
    /\ started = FALSE
    /\ failed = {}
    /\ pool = <<>>
    /\ rxRing = <<>>
    /\ txRing = <<>>
    /\ arrivals = 0
    /\ bufs = [k \in 0..(MAX_PKT_BURST - 1) |-> NULL]
    /\ nb_rx = 0
    /\ nb_tx = 0
    /\ i = 0
    /\ total_forwarded = 0
    /\ total_dropped = 0
    /\ report = <<>>
    /\ start_fwd = 0
    /\ start_drop = 0
    /\ tx_calls = 0
    /\ submitted = <<>>
    /\ freed = <<>>
    /\ rxLog = <<>>
    /\ submitLog = <<>>
    /\ txLog = <<>>
    /\ freeLog = <<>>

(* ------------------------------- main ---------------------------------- *)
\* std::process::exit(1) after printing msgs
Exit1(msgs) ==
    /\ pc' = "exit"
    /\ exit_code' = 1
    /\ diag' = diag \o msgs

\* the setup stages whose failure port_init itself reports with eprintln
PortInitPrints ==
    IF variant = "reflector"
    THEN {"alloc", "rte_mempool_create_empty", "rte_mempool_populate_virt",
          "rte_eth_rx_queue_setup"}
    ELSE {"rte_pktmbuf_pool_create", "rte_eth_dev_info_get",
          "rte_eth_dev_configure", "rte_eth_dev_adjust_nb_rx_tx_desc",
          "rte_eth_rx_queue_setup", "rte_eth_tx_queue_setup",
          "rte_eth_dev_start", "rte_eth_promiscuous_enable"}

\* port_init returns Err at stage name; main prints "Cannot init port" and exits
PortInitErr(name) ==
    Exit1((IF name \in PortInitPrints THEN <<name>> ELSE <<>>)
          \o <<"Cannot init port">>)

\* the status tested nowhere: control moves on whatever the call reported
CheckedCall_Ignored(at, name, next) ==
    /\ pc = at
    /\ calls' = Append(calls, name)
    /\ pc' = next
    /\ \E ok \in BOOLEAN :
         failed' = IF ok THEN failed ELSE failed \cup {name}
    /\ UNCHANGED <<exit_code, diag>>

\* a device-layer call of port_init whose status the code tests: on failure
\* port_init returns Err, on success control moves to the stage next
CheckedCall(at, name, next) ==
    /\ pc = at
    /\ calls' = Append(calls, name)
    /\ \E ok \in BOOLEAN :
         IF ok
         THEN /\ pc' = next
              /\ UNCHANGED <<exit_code, diag, failed>>
         ELSE /\ failed' = failed \cup {name}
              /\ PortInitErr(name)

\* a device-layer call of port_init whose status the code discards
UncheckedCall(at, name, next) ==
    /\ pc = at
    /\ calls' = Append(calls, name)
    /\ pc' = next
    /\ \E ok \in BOOLEAN :
         failed' = IF ok THEN failed ELSE failed \cup {name}
    /\ UNCHANGED <<exit_code, diag>>

EalInit ==
    /\ pc = "eal_init"
    /\ calls' = Append(calls, "rte_eal_init")
    /\ \E ok \in BOOLEAN :
         IF ok
         THEN /\ pc' = "check_argc"
              /\ UNCHANGED <<exit_code, diag, failed>>
         ELSE /\ failed' = failed \cup {"rte_eal_init"}
              /\ Exit1(<<"Error with EAL initialization">>)
    /\ UNCHANGED <<cliVars, port_id, raw_mem, mem, pool_state, started,
                   devVars, loopVars, histVars>>

CheckArgc ==
    /\ pc = "check_argc"
    /\ IF Len(args) # 2
       THEN /\ failed' = failed \cup {"argc"}
            /\ Exit1(<<"Usage">>)
       ELSE /\ pc' = "parse_port"
            /\ UNCHANGED <<exit_code, diag, failed>>
    /\ UNCHANGED <<cliVars, port_id, calls, raw_mem, mem, pool_state, started,
                   devVars, loopVars, histVars>>

ParsePort ==
    /\ pc = "parse_port"
    /\ LET p == ParseU16(args[2])
       IN  IF p = -1
           THEN /\ failed' = failed \cup {"parse"}
                /\ Exit1(<<"Invalid port number">>)
                /\ UNCHANGED port_id
           ELSE /\ port_id' = p
                /\ pc' = "is_valid_port"
                /\ UNCHANGED <<exit_code, diag, failed>>
    /\ UNCHANGED <<cliVars, calls, raw_mem, mem, pool_state, started,
                   devVars, loopVars, histVars>>

(* ----------------------------- port_init ------------------------------- *)
\* the early return left out: an invalid port goes on to the pool setup
IsValidPort_Ignored ==
    /\ pc = "is_valid_port"
    /\ calls' = Append(calls, "rte_eth_dev_is_valid_port")
    /\ pc' = IF variant = "reflector" THEN "alloc" ELSE "pool_create"
    /\ failed' = IF port_id \in AttachedPorts
                 THEN failed
                 ELSE failed \cup {"rte_eth_dev_is_valid_port"}
    /\ UNCHANGED <<cliVars, exit_code, diag, port_id, raw_mem, mem, pool_state,
                   started, devVars, loopVars, histVars>>

IsValidPort ==
    /\ pc = "is_valid_port"
    /\ calls' = Append(calls, "rte_eth_dev_is_valid_port")
    /\ IF port_id \in AttachedPorts
       THEN /\ pc' = IF variant = "reflector" THEN "alloc" ELSE "pool_create"
            /\ UNCHANGED <<exit_code, diag, failed>>
       ELSE /\ failed' = failed \cup {"rte_eth_dev_is_valid_port"}
            /\ PortInitErr("rte_eth_dev_is_valid_port")
    /\ UNCHANGED <<cliVars, port_id, raw_mem, mem, pool_state, started,
                   devVars, loopVars, histVars>>

\* the pad left out of the region size
TotalMemSize_NoPad(n, elt) == n * elt

\* let total_mem_size = (NUM_MBUFS as usize * elt_size) + 4096; the values
\* are far below the width of usize, so the sum does not wrap
TotalMemSize(n, elt) == n * elt + REGION_PAD

\* reflector.rs: elt_size, total_mem_size, Layout::from_size_align and
\* alloc(layout) of the page-aligned region
AllocRegion ==
    /\ CheckedCall("alloc", "alloc", "create_empty")
    /\ raw_mem' = IF pc' = "exit" THEN "null" ELSE "ok"
    /\ mem' = [mem EXCEPT !.elt_size = ELT_SIZE,
                          !.total_mem_size = TotalMemSize(NUM_MBUFS, ELT_SIZE),
                          !.layout_size = TotalMemSize(NUM_MBUFS, ELT_SIZE),
                          !.layout_align = LAYOUT_ALIGN]
    /\ UNCHANGED <<cliVars, port_id, pool_state, started,
                   devVars, loopVars, histVars>>

\* reflector.rs: rte_mempool_create_empty
CreateEmpty ==
    /\ CheckedCall("create_empty", "rte_mempool_create_empty", "set_ops")
    /\ pool_state' = IF pc' = "exit" THEN pool_state ELSE "empty"
    /\ mem' = [mem EXCEPT !.pool_n = NUM_MBUFS, !.pool_elt_size = mem.elt_size]
    /\ UNCHANGED <<cliVars, port_id, raw_mem, started,
                   devVars, loopVars, histVars>>

\* reflector.rs: rte_mempool_set_ops_byname, status discarded
SetOps ==
    /\ UncheckedCall("set_ops", "rte_mempool_set_ops_byname", "populate")
    /\ UNCHANGED <<cliVars, port_id, raw_mem, mem, pool_state, started,
                   devVars, loopVars, histVars>>

\* the populated free ring: every slot, in address order
FullPool == [k \in 1..PoolSlots |-> k]

\* "DPDK sees 2048 fits twice into 4096. It will pack them tightly.": the
\* objects populate lays out in one page and the bytes of the page left over
ObjsPerPage(pg_sz, elt) == pg_sz \div elt
PageRest(pg_sz, elt) == pg_sz % elt

\* reflector.rs: rte_mempool_populate_virt(mbuf_pool, raw_mem, total_mem_size,
\* 4096, None, null)
Populate ==
    /\ CheckedCall("populate", "rte_mempool_populate_virt", "pool_init")
    /\ IF pc' = "exit"
       THEN UNCHANGED <<pool_state, pool>>
       ELSE /\ pool_state' = "populated"
            /\ pool' = FullPool
    /\ mem' = [mem EXCEPT !.populate_len = mem.total_mem_size,
                          !.populate_pg_sz = POPULATE_PG_SZ,
                          !.objs_per_page = ObjsPerPage(POPULATE_PG_SZ, mem.pool_elt_size),
                          !.page_rest = PageRest(POPULATE_PG_SZ, mem.pool_elt_size)]
    /\ UNCHANGED <<cliVars, port_id, raw_mem, started,
                   rxRing, txRing, arrivals, loopVars, histVars>>

\* the headroom not taken off the element
DataRoom_NoHeadroom(elt) == elt - MBUF_STRUCT_SIZE

\* "Usable data room will be: 2048 - 128 (mbuf) - 128 (headroom)"
DataRoom(elt) == elt - MBUF_STRUCT_SIZE - PKTMBUF_HEADROOM

\* control after the mbuf headers are initialised: on to the device setup
AfterPoolInit_SkipConfigure == "rx_queue_setup"

AfterPoolInit == "dev_info"

\* reflector.rs: rte_pktmbuf_pool_init and rte_mempool_obj_iter
PoolInit ==
    /\ pc = "pool_init"
    /\ calls' = calls \o <<"rte_pktmbuf_pool_init", "rte_mempool_obj_iter">>
    /\ pool_state' = "ready"
    /\ mem' = [mem EXCEPT !.data_room = DataRoom(mem.pool_elt_size)]
    /\ pc' = AfterPoolInit
    /\ UNCHANGED <<cliVars, exit_code, port_id, diag, raw_mem, started, failed,
                   devVars, loopVars, histVars>>

\* main.rs: rte_pktmbuf_pool_create
PoolCreate ==
    /\ CheckedCall("pool_create", "rte_pktmbuf_pool_create", "dev_info")
    /\ IF pc' = "exit"
       THEN UNCHANGED <<pool_state, pool>>
       ELSE /\ pool_state' = "ready"
            /\ pool' = FullPool
    /\ UNCHANGED <<cliVars, port_id, raw_mem, mem, started,
                   rxRing, txRing, arrivals, loopVars, histVars>>

DevInfoGet ==
    /\ CheckedCall("dev_info", "rte_eth_dev_info_get", "configure")
    /\ UNCHANGED <<cliVars, port_id, raw_mem, mem, pool_state, started,
                   devVars, loopVars, histVars>>

DevConfigure ==
    /\ CheckedCall("configure", "rte_eth_dev_configure", "adjust")
    /\ UNCHANGED <<cliVars, port_id, raw_mem, mem, pool_state, started,
                   devVars, loopVars, histVars>>

AdjustDesc ==
    /\ CheckedCall("adjust", "rte_eth_dev_adjust_nb_rx_tx_desc", "rx_queue_setup")
    /\ UNCHANGED <<cliVars, port_id, raw_mem, mem, pool_state, started,
                   devVars, loopVars, histVars>>

RxQueueSetup ==
    /\ CheckedCall("rx_queue_setup", "rte_eth_rx_queue_setup", "tx_queue_setup")
    /\ UNCHANGED <<cliVars, port_id, raw_mem, mem, pool_state, started,
                   devVars, loopVars, histVars>>

TxQueueSetup ==
    /\ CheckedCall("tx_queue_setup", "rte_eth_tx_queue_setup", "dev_start")
    /\ UNCHANGED <<cliVars, port_id, raw_mem, mem, pool_state, started,
                   devVars, loopVars, histVars>>

DevStart ==
    /\ CheckedCall("dev_start", "rte_eth_dev_start", "macaddr_get")
    /\ started' = (pc' # "exit")
    /\ UNCHANGED <<cliVars, port_id, raw_mem, mem, pool_state,
                   devVars, loopVars, histVars>>

\* reflector.rs discards the status of rte_eth_macaddr_get, main.rs tests it
MacaddrGet ==
    /\ IF variant = "reflector"
       THEN UncheckedCall("macaddr_get", "rte_eth_macaddr_get", "promiscuous")
       ELSE CheckedCall("macaddr_get", "rte_eth_macaddr_get", "promiscuous")
    /\ UNCHANGED <<cliVars, port_id, raw_mem, mem, pool_state, started,
                   devVars, loopVars, histVars>>

\* reflector.rs discards the status of rte_eth_promiscuous_enable, main.rs
\* tests it; Ok(()) returns to main, which calls wire_ports
PromiscuousEnable ==
    /\ IF variant = "reflector"
       THEN UncheckedCall("promiscuous", "rte_eth_promiscuous_enable", "wire_ports")
       ELSE CheckedCall("promiscuous", "rte_eth_promiscuous_enable", "wire_ports")
    /\ UNCHANGED <<cliVars, port_id, raw_mem, mem, pool_state, started,
                   devVars, loopVars, histVars>>

(* --------------------------- device layer ------------------------------ *)
\* a frame arrives: the device takes a slot from the pool's free ring, writes
\* the frame into it and queues the handle on the RX ring
DeviceReceive ==
    /\ started
    /\ pc # "exit"
    /\ arrivals < MaxFrames
    /\ pool # <<>>
    /\ Len(rxRing) < RxDepth
    /\ arrivals' = arrivals + 1
    /\ rxRing' = Append(rxRing, <<Head(pool), arrivals + 1>>)
    /\ pool' = Tail(pool)
    /\ UNCHANGED <<cliVars, pc, exit_code, setupVars, txRing, loopVars, histVars>>

\* transmit completion: the device recycles the oldest accepted buffer into
\* the pool's free ring
TxComplete ==
    /\ started
    /\ pc # "exit"
    /\ txRing # <<>>
    /\ pool' = Append(pool, Head(txRing)[1])
    /\ txRing' = Tail(txRing)
    /\ UNCHANGED <<cliVars, pc, exit_code, setupVars, rxRing, arrivals,
                   loopVars, histVars>>

(* ----------------------------- wire_ports ------------------------------ *)
\* the locals of wire_ports as declared on entry
WirePortsEntry ==
    /\ pc = "wire_ports"
    /\ bufs' = [k \in 0..(MAX_PKT_BURST - 1) |-> NULL]
    /\ total_forwarded' = 0
    /\ total_dropped' = 0
    /\ pc' = "rx_burst"
    /\ UNCHANGED <<cliVars, exit_code, setupVars, devVars, nb_rx, nb_tx, i,
                   report, histVars>>

\* the guard dropped: tx_burst is called for every burst, also an empty one
AfterRxBurst_Always(r) == "tx_burst"

\* if nb_rx > 0 { ... }: where control goes after rx_burst returned r
AfterRxBurst(r) == IF r > 0 THEN "tx_burst" ELSE "rx_burst"

\* the array after rx_burst stored r handles: it writes positions [0, r) and
\* leaves the rest of the array as it was
StoreBurst(old, r, ring) ==
    [k \in DOMAIN old |-> IF k < r THEN ring[k + 1] ELSE old[k]]

\* let nb_rx = rte_eth_rx_burst(in_port, 0, bufs, MAX_PKT_BURST)
RxBurst ==
    /\ pc = "rx_burst"
    /\ \E r \in 0..Min(MAX_PKT_BURST, Len(rxRing)) :
         /\ nb_rx' = r
         /\ bufs' = StoreBurst(bufs, r, rxRing)
         /\ rxRing' = SubSeq(rxRing, r + 1, Len(rxRing))
         /\ rxLog' = rxLog \o Frames(SubSeq(rxRing, 1, r))
         /\ pc' = AfterRxBurst(r)
    /\ nb_tx' = 0
    /\ i' = 0
    /\ report' = <<>>
    /\ start_fwd' = total_forwarded
    /\ start_drop' = total_dropped
    /\ tx_calls' = 0
    /\ submitted' = <<>>
    /\ freed' = <<>>
    /\ UNCHANGED <<cliVars, exit_code, setupVars, pool, txRing, arrivals,
                   total_forwarded, total_dropped, submitLog, txLog, freeLog>>

\* the burst handed over back to front
TxArgs_Reversed(n) == [k \in 1..n |-> bufs[n - k]]

\* the handles the loop hands to tx_burst: bufs[0 .. n-1], in array order
TxArgs(n) == [k \in 1..n |-> bufs[k - 1]]

\* let nb_tx = rte_eth_tx_burst(out_port, 0, bufs, nb_rx): the TX ring takes a
\* prefix of the burst, as long as it has descriptors free
TxBurst ==
    /\ pc = "tx_burst"
    /\ \E t \in 0..Min(Len(TxArgs(nb_rx)), TxDepth - Len(txRing)) :
         /\ nb_tx' = t
         /\ txRing' = txRing \o SubSeq(TxArgs(nb_rx), 1, t)
         /\ txLog' = txLog \o Frames(SubSeq(TxArgs(nb_rx), 1, t))
    /\ submitted' = TxArgs(nb_rx)
    /\ submitLog' = submitLog \o Frames(TxArgs(nb_rx))
    /\ tx_calls' = tx_calls + 1
    /\ pc' = "count_fwd"
    /\ UNCHANGED <<cliVars, exit_code, setupVars, pool, rxRing, arrivals,
                   bufs, nb_rx, i, total_forwarded, total_dropped, report,
                   start_fwd, start_drop, freed, rxLog, freeLog>>

\* bursts counted instead of buffers
AddForwarded_PerBurst(t) == total_forwarded + (IF t > 0 THEN 1 ELSE 0)

\* total_forwarded += nb_tx as u64
AddForwarded(t) == total_forwarded + t

\* the totals printed in every non-empty iteration
Report_Always(t, fwd, drop) == <<[forwarded |-> fwd, dropped |-> drop]>>

\* if nb_tx > 0 { println!(total_forwarded); println!(total_dropped) }
Report(t, fwd, drop) ==
    IF t > 0 THEN <<[forwarded |-> fwd, dropped |-> drop]>> ELSE <<>>

\* if nb_tx < nb_rx { ... }
Shortfall(t, r) == t < r

\* a shortfall breaks out of the loop: wire_ports returns and main ends
AfterCount_Break(t, r) == IF Shortfall(t, r) THEN "exit" ELSE "rx_burst"

\* a shortfall sends the burst to tx_burst again instead of dropping it
AfterCount_Retry(t, r) == IF Shortfall(t, r) THEN "tx_burst" ELSE "rx_burst"

\* where control goes after the forwarded count: into the drop path on a
\* shortfall, else to the next iteration
AfterCount(t, r) == IF Shortfall(t, r) THEN "count_drop" ELSE "rx_burst"

CountForwarded ==
    /\ pc = "count_fwd"
    /\ total_forwarded' = AddForwarded(nb_tx)
    /\ report' = report \o Report(nb_tx, total_forwarded', total_dropped)
    /\ pc' = AfterCount(nb_tx, nb_rx)
    /\ UNCHANGED <<cliVars, exit_code, setupVars, devVars, bufs, nb_rx, nb_tx, i,
                   total_dropped, histVars>>

\* the whole burst counted as dropped
AddDropped_Burst(r, t) == total_dropped + r

\* the counter assigned instead of accumulated
AddDropped_Assign(r, t) == r - t

\* total_dropped += (nb_rx - nb_tx) as u64
AddDropped(r, t) == total_dropped + (r - t)

\* the reclaim loop starting at 0: it also frees the accepted prefix
FreeFrom_Zero == nb_tx - nb_tx

\* the reclaim loop starting one late: it skips the first rejected buffer
FreeFrom_Next == nb_tx + 1

\* the reclaim loop stopping one early: it skips the last rejected buffer
FreeUntil_Short == nb_rx - 1

\* the reclaim loop running to the end of the array, over the stale handles
FreeUntil_Array == MAX_PKT_BURST

\* for i in nb_tx..nb_rx: first index and (exclusive) end of the range
FreeFrom == nb_tx
FreeUntil == nb_rx

CountDropped ==
    /\ pc = "count_drop"
    /\ total_dropped' = AddDropped(nb_rx, nb_tx)
    /\ i' = FreeFrom
    /\ pc' = IF FreeFrom < FreeUntil THEN "free" ELSE "rx_burst"
    /\ UNCHANGED <<cliVars, exit_code, setupVars, devVars, bufs, nb_rx, nb_tx,
                   total_forwarded, report, histVars>>

\* rte_pktmbuf_free(bufs[i]): the mbuf goes back to the free ring of its pool
FreeBuffer ==
    /\ pc = "free"
    /\ pool' = Append(pool, bufs[i][1])
    /\ freeLog' = Append(freeLog, bufs[i][2])
    /\ freed' = Append(freed, i)
    /\ i' = i + 1
    /\ pc' = IF i + 1 < FreeUntil THEN "free" ELSE "rx_burst"
    /\ UNCHANGED <<cliVars, exit_code, setupVars, rxRing, txRing, arrivals,
                   bufs, nb_rx, nb_tx, total_forwarded, total_dropped, report,
                   start_fwd, start_drop, tx_calls, submitted, rxLog, submitLog,
                   txLog>>

Next ==
    \/ EalInit
    \/ CheckArgc
    \/ ParsePort
    \/ IsValidPort
    \/ AllocRegion
    \/ CreateEmpty
    \/ SetOps
    \/ Populate
    \/ PoolInit
    \/ PoolCreate
    \/ DevInfoGet
    \/ DevConfigure
    \/ AdjustDesc
    \/ RxQueueSetup
    \/ TxQueueSetup
    \/ DevStart
    \/ MacaddrGet
    \/ PromiscuousEnable
    \/ DeviceReceive
    \/ TxComplete
    \/ WirePortsEntry
    \/ RxBurst
    \/ TxBurst
    \/ CountForwarded
    \/ CountDropped
    \/ FreeBuffer

Spec == Init /\ [][Next]_vars

(* ------------------------ the loop under fairness ----------------------- *)
\* number of frames that arrive during a run of LiveSpec
LiveFrames == 4

LiveDeviceReceive == arrivals < LiveFrames /\ DeviceReceive

\* one step of the thread that runs wire_ports
LoopStep ==
    \/ WirePortsEntry
    \/ RxBurst
    \/ TxBurst
    \/ CountForwarded
    \/ CountDropped
    \/ FreeBuffer

LiveNext ==
    \/ EalInit
    \/ CheckArgc
    \/ ParsePort
    \/ IsValidPort
    \/ AllocRegion
    \/ CreateEmpty
    \/ SetOps
    \/ Populate
    \/ PoolInit
    \/ PoolCreate
    \/ DevInfoGet
    \/ DevConfigure
    \/ AdjustDesc
    \/ RxQueueSetup
    \/ TxQueueSetup
    \/ DevStart
    \/ MacaddrGet
    \/ PromiscuousEnable
    \/ LiveDeviceReceive
    \/ TxComplete
    \/ LoopStep

\* the thread in wire_ports is the only thread and none of its calls blocks:
\* it takes its next step; the device is free to deliver and complete or not
LiveSpec == Init /\ [][LiveNext]_vars /\ WF_vars(LoopStep)

(* ------------------------------ helpers -------------------------------- *)
LoopPcs == {"wire_ports", "rx_burst", "tx_burst", "count_fwd", "count_drop", "free"}

\* control is at the POLL step of wire_ports: between two iterations
AtPoll == pc = "rx_burst"

Occurrences(s, x) == Cardinality({k \in 1..Len(s) : s[k] = x})

NoDuplicates(s) == \A a, b \in 1..Len(s) : s[a] = s[b] => a = b

RECURSIVE IsSubsequence(_, _)
IsSubsequence(a, b) ==
    IF a = <<>> THEN TRUE
    ELSE IF b = <<>> THEN FALSE
    ELSE IF Head(a) = Head(b) THEN IsSubsequence(Tail(a), Tail(b))
    ELSE IsSubsequence(a, Tail(b))

\* the array positions whose handles the loop owns at its current position:
\* all of the burst before tx_burst, the rejected part after it, the part not
\* yet released during the reclaim loop
HeldRange ==
    CASE pc = "tx_burst" -> 0..(nb_rx - 1)
      [] pc \in {"count_fwd", "count_drop"} -> nb_tx..(nb_rx - 1)
      [] pc = "free" -> i..(nb_rx - 1)
      [] OTHER -> {}

\* the number of places slot s is in
Places(s) ==
      Cardinality({k \in 1..Len(pool) : pool[k] = s})
    + Cardinality({k \in 1..Len(rxRing) : rxRing[k][1] = s})
    + Cardinality({k \in HeldRange : bufs[k][1] = s})
    + Cardinality({k \in 1..Len(txRing) : txRing[k][1] = s})

\* the frames rx_burst delivered in the current iteration, in order
Delivered == SubSeq(rxLog, Len(rxLog) - nb_rx + 1, Len(rxLog))

(* ------------------------------- claims -------------------------------- *)
\* C1: ownership conservation. At the end of every iteration the number of
\* buffers rx_burst delivered equals the number tx_burst accepted plus the
\* number passed to rte_pktmbuf_free: r = t + released.
C1_OwnershipConservation ==
    AtPoll => nb_rx = nb_tx + Len(freed)

C1_Witness ==
    AtPoll /\ nb_rx = 4 /\ nb_tx = 2 /\ Len(freed) = 2

\* C2: drop path. When an iteration is over, the positions passed to
\* rte_pktmbuf_free are exactly t, t+1, ..., r-1, each once; during the
\* reclaim loop they are t, ..., i-1; and over all iterations no frame is
\* released twice and every rejected frame has been released once.
C2_DropPathExactlyOnce ==
    /\ AtPoll => freed = [k \in 1..(nb_rx - nb_tx) |-> nb_tx + k - 1]
    /\ pc = "free" => freed = [k \in 1..(i - nb_tx) |-> nb_tx + k - 1]
    /\ NoDuplicates(freeLog)
    /\ AtPoll => \A k \in nb_tx..(nb_rx - 1) : Occurrences(freeLog, bufs[k][2]) = 1

C2_Witness ==
    AtPoll /\ nb_rx = 4 /\ nb_tx = 1 /\ freed = <<1, 2, 3>> /\ Len(freeLog) > 3

\* C3: ownership transfer. A frame tx_burst accepted is never passed to
\* rte_pktmbuf_free and is passed to tx_burst only the once, whatever later
\* iterations do and although its handle stays in the array.
C3_AcceptedNeverTouched ==
    \A f \in Range(txLog) :
        /\ f \notin Range(freeLog)
        /\ Occurrences(submitLog, f) = 1

\* a later, shorter burst has been forwarded and reclaimed while the handle of
\* an accepted frame still sits in the array above it
C3_Witness ==
    /\ AtPoll
    /\ nb_rx > 0
    /\ nb_tx < nb_rx
    /\ Len(freed) = nb_rx - nb_tx
    /\ \E k \in nb_rx..(MAX_PKT_BURST - 1) : bufs[k][2] \in Range(txLog)

\* C4: pool slot invariant. Once the pool is populated every slot is in
\* exactly one place: the pool's free ring, the RX ring, the part of the burst
\* array the loop owns, or the TX ring.
C4_SlotInExactlyOnePlace ==
    pool_state \in {"populated", "ready"} =>
        /\ \A s \in Slots : Places(s) = 1
        /\ Len(pool) + Len(rxRing) + Cardinality(HeldRange) + Len(txRing) = PoolSlots

C4_Witness ==
    /\ pool # <<>>
    /\ rxRing # <<>>
    /\ txRing # <<>>
    /\ pc = "free"
    /\ Cardinality(HeldRange) >= 1

\* C5: counter update. An iteration that received r buffers of which t were
\* accepted leaves total_forwarded t higher and total_dropped r - t higher
\* than they were when it began, and releases nothing when t = r.
C5_CounterUpdate ==
    AtPoll =>
        /\ total_forwarded = start_fwd + nb_tx
        /\ total_dropped = start_drop + (nb_rx - nb_tx)
        /\ (nb_rx = nb_tx => freed = <<>>)

C5_Witness ==
    /\ AtPoll /\ nb_rx = 4 /\ nb_tx = 4 /\ freed = <<>>
    /\ start_fwd > 0 /\ total_forwarded = start_fwd + 4
    /\ start_drop > 0 /\ total_dropped = start_drop

\* C6: counter monotonicity. No step of the program lowers total_forwarded or
\* total_dropped.
C6_CountersMonotonic ==
    [][/\ total_forwarded' >= total_forwarded
       /\ total_dropped' >= total_dropped]_vars

C6_Witness ==
    AtPoll /\ start_fwd > 0 /\ total_forwarded > start_fwd
           /\ start_drop > 0 /\ total_dropped > start_drop

\* C7: zero-burst no-op. An rx_burst that returns 0 ends the iteration on the
\* spot: control is back at the POLL step, so neither tx_burst nor
\* rte_pktmbuf_free is called and nothing is printed, and the counters, the
\* pool and the TX ring are as they were.
C7_ZeroBurstNoOp ==
    [][(RxBurst /\ nb_rx' = 0) =>
          /\ pc' = "rx_burst"
          /\ report' = <<>>
          /\ UNCHANGED <<total_forwarded, total_dropped, pool, txRing, bufs,
                         submitLog, txLog, freeLog>>]_vars

\* an empty poll after iterations that forwarded and dropped
C7_Witness ==
    AtPoll /\ nb_rx = 0 /\ total_forwarded > 0 /\ total_dropped > 0

\* C8: order preservation. The handles an iteration passes to tx_burst are the
\* frames rx_burst delivered in that iteration, in the same order; and the
\* frames accepted over all iterations form a subsequence of the frames in
\* the order rx_burst delivered them.
C8_OrderPreserved ==
    /\ tx_calls > 0 => Frames(submitted) = Delivered
    /\ IsSubsequence(txLog, rxLog)

\* a burst of three went to tx_burst after an earlier frame had been dropped
C8_Witness ==
    /\ tx_calls = 1
    /\ nb_rx >= 3
    /\ nb_tx >= 2
    /\ freeLog # <<>>
    /\ txLog[Len(txLog)] > freeLog[1]

\* C9: no retry. An iteration calls tx_burst once if the burst is non-empty
\* and never more than once; no frame is passed to tx_burst twice; and when
\* an iteration is over every frame it received has been accepted or released,
\* the rejected ones being the last frames released.
C9_NoRetry ==
    /\ tx_calls <= 1
    /\ AtPoll => tx_calls = (IF nb_rx > 0 THEN 1 ELSE 0)
    /\ NoDuplicates(submitLog)
    /\ AtPoll => Range(rxLog) = Range(txLog) \cup Range(freeLog)
    /\ AtPoll => [k \in 1..(nb_rx - nb_tx) |-> bufs[nb_tx + k - 1][2]]
                   = SubSeq(freeLog, Len(freeLog) - (nb_rx - nb_tx) + 1, Len(freeLog))

\* a shortfall in a later iteration: the rejected frames are released, none
\* of them is in the TX ring, and the RX ring already holds newer frames
C9_Witness ==
    /\ AtPoll
    /\ tx_calls = 1
    /\ nb_tx > 0
    /\ nb_rx - nb_tx >= 2
    /\ Len(rxLog) > nb_rx
    /\ rxRing # <<>>

\* C10: setup failures are fatal. Whenever a startup step has reported
\* failure the process is not in wire_ports, and once it has exited its status
\* is non-zero.
C10_SetupFailuresFatal ==
    /\ pc \in LoopPcs => failed = {}
    /\ pc = "exit" => exit_code # 0


(* --------------------------- setup helpers ----------------------------- *)
IsPrefix(a, b) == Len(a) <= Len(b) /\ a = SubSeq(b, 1, Len(a))

\* the steps that build the pool
PoolSteps ==
    {"alloc", "rte_mempool_create_empty", "rte_mempool_populate_virt",
     "rte_pktmbuf_pool_create"}

\* the steps that bring up the device and its queues
QueueSteps ==
    {"rte_eth_dev_configure", "rte_eth_rx_queue_setup", "rte_eth_tx_queue_setup",
     "rte_eth_dev_start"}

\* the checks of the configuration: argument count, port id syntax, port id
ConfigChecks == {"argc", "parse", "rte_eth_dev_is_valid_port"}

\* the setup calls in the order the claim gives them, for the binary that runs
SetupOrder ==
    IF variant = "reflector"
    THEN <<"rte_eth_dev_is_valid_port", "alloc", "rte_mempool_create_empty",
           "rte_mempool_set_ops_byname", "rte_mempool_populate_virt",
           "rte_pktmbuf_pool_init", "rte_mempool_obj_iter",
           "rte_eth_dev_configure", "rte_eth_dev_adjust_nb_rx_tx_desc",
           "rte_eth_rx_queue_setup", "rte_eth_tx_queue_setup", "rte_eth_dev_start">>
    ELSE <<"rte_eth_dev_is_valid_port", "rte_pktmbuf_pool_create",
           "rte_eth_dev_configure", "rte_eth_dev_adjust_nb_rx_tx_desc",
           "rte_eth_rx_queue_setup", "rte_eth_tx_queue_setup", "rte_eth_dev_start">>

InSetupOrder(c) == c \in Range(SetupOrder)

\* C11: no partial success of pool construction. If the allocation, the
\* empty-pool creation or the population (in main.rs: the pool creation) has
\* failed, the process has exited without one call of configure, RX queue
\* setup, TX queue setup or start; and whenever RX queue setup has been called
\* the pool is fully built and no pool step has failed.
C11_NoPartialPool ==
    /\ failed \cap PoolSteps # {} =>
          /\ pc = "exit"
          /\ Range(calls) \cap QueueSteps = {}
          /\ ~started
    /\ "rte_eth_rx_queue_setup" \in Range(calls) =>
          /\ pool_state = "ready"
          /\ failed \cap PoolSteps = {}
          /\ variant = "reflector" => raw_mem = "ok"

\* the population failed after the region and the empty pool were there
C11_Witness ==
    /\ pc = "exit"
    /\ "rte_mempool_populate_virt" \in failed
    /\ raw_mem = "ok"
    /\ pool_state = "empty"

\* C12: pool sizing. The size port_init gives the Layout and the length it
\* hands to rte_mempool_populate_virt are both NUM_MBUFS * 2048 + 4096 with
\* NUM_MBUFS = 8192, and the Layout asks for 4096-byte alignment.
C12_PoolSizing ==
    /\ raw_mem # "none" =>
          /\ mem.layout_size = 8192 * 2048 + 4096
          /\ mem.layout_align = 4096
          /\ mem.layout_size = mem.total_mem_size
    /\ "rte_mempool_populate_virt" \in Range(calls) =>
          /\ mem.populate_len = 8192 * 2048 + 4096
          /\ mem.populate_len = mem.layout_size
          /\ mem.pool_n = 8192
          /\ mem.pool_elt_size = 2048

C12_Witness ==
    /\ pool_state = "populated"
    /\ raw_mem = "ok"
    /\ mem.populate_len = NUM_MBUFS * ELT_SIZE + REGION_PAD

\* C13 as stated: the region size before the 4096-byte pad is added, that is
\* NUM_MBUFS * elt_size, is 16,781,312.
C13_SizeBeforePadAsStated ==
    raw_mem # "none" => mem.total_mem_size - REGION_PAD = 16781312

\* C13 as amended: for N = 8192 and stride 2048 the region is 16,777,216 bytes
\* before the 4096-byte pad is added and 16,781,312 bytes with it.
C13_SizeWithPad ==
    raw_mem # "none" =>
        /\ mem.total_mem_size - REGION_PAD = 16777216
        /\ mem.total_mem_size = 16781312

C13_Witness ==
    raw_mem = "ok" /\ mem.total_mem_size = 16781312 /\ mem.elt_size = 2048

\* C14: stride adequacy. The 2048-byte element goes into the 4096-byte page
\* twice with nothing left over, and what is left of it after the 128-byte
\* mbuf header and the 128-byte headroom is 1792 bytes, at least the MTU of
\* 1500.
C14_StrideAdequate ==
    pool_state = "ready" /\ variant = "reflector" =>
        /\ mem.objs_per_page = 2
        /\ mem.page_rest = 0
        /\ mem.data_room = 1792
        /\ mem.data_room >= STANDARD_MTU

C14_Witness ==
    /\ pool_state = "ready"
    /\ variant = "reflector"
    /\ mem.pool_elt_size = 2048
    /\ mem.populate_pg_sz = 4096
    /\ mem.data_room = 1792

\* C15: configuration errors precede allocation. When the argument count, the
\* port id's syntax or the port id itself has been found wrong, the process
\* has printed a message and exited non-zero with no region allocated and no
\* pool created; and allocation or pool creation is only ever called with two
\* arguments, a port string that parses and a port the device layer knows.
C15_ConfigErrorsFirst ==
    /\ failed \cap ConfigChecks # {} =>
          /\ pc = "exit"
          /\ exit_code # 0
          /\ diag # <<>>
          /\ Range(calls) \cap PoolSteps = {}
          /\ raw_mem = "none"
          /\ pool_state = "none"
          /\ mem = NoMem
    /\ Range(calls) \cap PoolSteps # {} =>
          /\ Len(args) = 2
          /\ ParseU16(args[2]) = port_id
          /\ port_id \in AttachedPorts

\* a port id that parses but names no port
C15_Witness ==
    /\ pc = "exit"
    /\ "rte_eth_dev_is_valid_port" \in failed
    /\ port_id = 1
    /\ exit_code = 1

\* C16: setup ordering. The calls the claim lists have been made in the listed
\* order, each at most once, none left out before a later one; RX queue setup
\* finds the pool built; and wire_ports runs, and rx_burst has delivered, only
\* after rte_eth_dev_start succeeded.
C16_SetupOrder ==
    /\ IsPrefix(SelectSeq(calls, InSetupOrder), SetupOrder)
    /\ "rte_eth_rx_queue_setup" \in Range(calls) => pool_state = "ready"
    /\ (pc \in LoopPcs \/ rxLog # <<>>) =>
          /\ started
          /\ "rte_eth_dev_start" \in Range(calls)
          /\ "rte_eth_dev_start" \notin failed
          /\ SelectSeq(calls, InSetupOrder) = SetupOrder

C16_Witness ==
    /\ variant = "reflector"
    /\ AtPoll
    /\ rxLog # <<>>
    /\ Len(calls) > Len(SetupOrder)


\* C17: loop progress. wire_ports always has a next step and never leaves the
\* loop, and from every position in the loop, the reclaim loop after a
\* shortfall included, control comes back to the POLL step.
C17_LoopProgress ==
    /\ [](pc \in LoopPcs => ENABLED LoopStep)
    /\ [][(pc \in LoopPcs) => (pc' \in LoopPcs)]_vars
    /\ (pc \in LoopPcs) ~> AtPoll
    /\ (pc = "free") ~> AtPoll

\* back at the POLL step after an iteration that had to reclaim two buffers
C17_Witness ==
    /\ AtPoll
    /\ nb_rx = 3
    /\ nb_tx = 1
    /\ freed = <<1, 2>>

\* C18: cumulative accounting. Each time control is at the POLL step,
\* total_forwarded is the number of frames tx_burst has accepted, total_dropped
\* the number of rte_pktmbuf_free calls, and their sum the number of frames
\* rx_burst has delivered since the loop started.
C18_CumulativeAccounting ==
    AtPoll =>
        /\ total_forwarded + total_dropped = Len(rxLog)
        /\ total_forwarded = Len(txLog)
        /\ total_dropped = Len(freeLog)

C18_Witness ==
    /\ AtPoll
    /\ Len(rxLog) >= 5
    /\ Len(txLog) >= 2
    /\ Len(freeLog) >= 2
    /\ start_fwd > 0
    /\ start_drop > 0

\* C19: reporting. Once an iteration is past the forwarded count it has
\* printed the totals if and only if tx_burst accepted something; the printed
\* forwarded total includes this iteration's t, the printed dropped total is
\* the value from before the iteration and leaves this iteration's drops out.
C19_Reporting ==
    pc \in {"count_drop", "free", "rx_burst"} =>
        /\ (report # <<>>) <=> (nb_tx > 0)
        /\ report # <<>> =>
              /\ Len(report) = 1
              /\ report[1].forwarded = start_fwd + nb_tx
              /\ report[1].dropped = start_drop

\* an iteration printed a dropped total that misses its own drops, and the
\* drops it does print come from an earlier iteration
C19_Witness ==
    /\ AtPoll
    /\ report # <<>>
    /\ nb_tx < nb_rx
    /\ report[1].dropped > 0
    /\ report[1].dropped < total_dropped

=============================================================================
